---- MODULE Spec2Model ----
(***************************************************************************)
(* Model of parity-clib/src/lib.rs: the C bridge of the Parity client.     *)
(*                                                                         *)
(* The bridge hands out two kinds of opaque handles (a Configuration and a *)
(* RunningClient, both Box::into_raw pointers), wraps its entry points in  *)
(* panic::catch_unwind and answers RPC queries asynchronously: one         *)
(* "rpc-subscriber" thread per query runs a CurrentThread executor with a  *)
(* QUERY_TIMEOUT ceiling and reports through the caller's callback.        *)
(* Restart and panic notifications go through CallbackStr::call, and the   *)
(* JNI adapter configFromCli wraps parity_config_from_cli for the JVM.     *)
(*                                                                         *)
(* The client runtime (parity_ethereum::Configuration::parse_cli, start,   *)
(* RunningClient::rpc_query / shutdown, panic_hook::set_with) is outside   *)
(* of lib.rs; its outcomes are nondeterministic inputs of the actions.     *)
(* The foreign caller is modelled as respecting the handle contract of     *)
(* parity.h: it only passes handles it still owns.                         *)
(***************************************************************************)
EXTENDS Integers, Sequences, FiniteSets, TLC

\* ---------------------------------------------------------------- bounds
\* Number of Box allocations (configurations and running clients) in a run.
MaxObjs == 3
\* Number of queries submitted to the runtime in a run.
MaxQueries == 2
\* Longest argument array given to parity_config_from_cli.
MaxArgs == 2
\* Number of queries submitted in the behaviours that vary every input.
MaxCalls == 1
\* Number of panic hook registrations in a run.
MaxHooks == 2

\* ------------------------------------------------------------- constants
\* ptr::null_mut()
NULL == 0
\* What the caller's output slot holds before the bridge writes to it.
GARBAGE == -1
\* const QUERY_TIMEOUT: Duration = Duration::from_secs(5*60)
QUERY_TIMEOUT == 5 * 60
\* The one non-null extern "C" fn pointer the caller passes as callback.
CB_FN == 1
\* A non-null context pointer of the caller.
CTX == 2

\* "parity"
STR_PARITY == <<112, 97, 114, 105, 116, 121>>
\* "none"
STR_NONE == <<110, 111, 110, 101>>
\* "critical" and "all": values of --auto-update the parser can return.
STR_CRITICAL == <<99, 114, 105, 116, 105, 99, 97, 108>>
STR_ALL == <<97, 108, 108>>
\* "--auto-update=all"
STR_AUTO_UPDATE_ALL ==
  <<45, 45, 97, 117, 116, 111, 45, 117, 112, 100, 97, 116, 101, 61, 97, 108, 108>>
\* "empty response"
STR_EMPTY_RESPONSE ==
  <<101, 109, 112, 116, 121, 32, 114, 101, 115, 112, 111, 110, 115, 101>>
\* "timeout"
STR_TIMEOUT == <<116, 105, 109, 101, 111, 117, 116>>

\* Byte strings the caller passes as command line arguments:
\* "a", "e-acute" (two bytes), a truncated two-byte sequence, a stray 0xFF.
ArgPool == { <<97>>, <<195, 169>>, <<195>>, <<255>> }
\* Byte strings the caller passes as queries: "{}", truncated, stray 0xFF.
QueryPool == { <<123, 125>>, <<195>>, <<255>> }
\* Response payloads of the runtime: "1", and "1\02" with an interior NUL.
Payloads == { <<49>>, <<49, 0, 50>> }
\* cfg.args.arg_auto_update as the parser leaves it.
AutoUpdates == { STR_CRITICAL, STR_ALL, STR_NONE }
\* Function pointers (Callback = Option<extern "C" fn>): None or the one fn.
Callbacks == { NULL, CB_FN }
\* Context pointers (*mut c_void) the caller passes along with a callback.
Params == { NULL, CTX }

\* ------------------------------------------------------- pure functions
Range(s) == { s[i] : i \in 1..Len(s) }

SeqsUpTo(S, n) == UNION { [1..k -> S] : k \in 0..n }

Cont(s, i) == i <= Len(s) /\ s[i] >= 128 /\ s[i] <= 191

In(s, i, lo, hi) == i <= Len(s) /\ s[i] >= lo /\ s[i] <= hi

\* str::from_utf8 / String::from_utf8: is s[i..] well-formed UTF-8?
RECURSIVE Utf8From(_, _)
Utf8From(s, i) ==
  IF i > Len(s) THEN TRUE
  ELSE LET b == s[i] IN
    CASE b <= 127 -> Utf8From(s, i + 1)
      [] b >= 194 /\ b <= 223 -> Cont(s, i + 1) /\ Utf8From(s, i + 2)
      [] b = 224 -> In(s, i + 1, 160, 191) /\ Cont(s, i + 2) /\ Utf8From(s, i + 3)
      [] b = 237 -> In(s, i + 1, 128, 159) /\ Cont(s, i + 2) /\ Utf8From(s, i + 3)
      [] b >= 225 /\ b <= 239 /\ b # 237 ->
           Cont(s, i + 1) /\ Cont(s, i + 2) /\ Utf8From(s, i + 3)
      [] b = 240 -> In(s, i + 1, 144, 191) /\ Cont(s, i + 2) /\ Cont(s, i + 3)
                    /\ Utf8From(s, i + 4)
      [] b >= 241 /\ b <= 243 -> Cont(s, i + 1) /\ Cont(s, i + 2) /\ Cont(s, i + 3)
                                 /\ Utf8From(s, i + 4)
      [] b = 244 -> In(s, i + 1, 128, 143) /\ Cont(s, i + 2) /\ Cont(s, i + 3)
                    /\ Utf8From(s, i + 4)
      [] OTHER -> FALSE

from_utf8(s) == Utf8From(s, 1)

\* Faulty variant: an argument that does not decode is skipped.
RECURSIVE collect_args_skipping(_, _, _)
collect_args_skipping(args, i, acc) ==
  IF i > Len(args) THEN [ok |-> TRUE, args |-> acc]
  ELSE IF from_utf8(args[i])
    THEN collect_args_skipping(args, i + 1, Append(acc, args[i]))
    ELSE collect_args_skipping(args, i + 1, acc)

\* The loop of parity_config_from_cli (lines 68-77): "parity" followed by
\* the decoded arguments, or the failure of the first argument that does
\* not decode.
RECURSIVE collect_args(_, _, _)
collect_args(args, i, acc) ==
  IF i > Len(args) THEN [ok |-> TRUE, args |-> acc]
  ELSE IF from_utf8(args[i]) THEN collect_args(args, i + 1, Append(acc, args[i]))
  ELSE [ok |-> FALSE, args |-> <<>>]

decode_args(args) == collect_args(args, 1, <<STR_PARITY>>)

\* Faulty variant: the length counts the terminating NUL.
to_cstring_counting_nul(response) ==
  IF 0 \in Range(response)
    THEN [ok |-> FALSE, buf |-> <<>>, len |-> 0]
    ELSE [ok |-> TRUE, buf |-> Append(response, 0), len |-> Len(response) + 1]

\* to_cstring: CString::new(response) fails on any 0 byte (the expect then
\* panics); otherwise the buffer is the bytes plus the terminating NUL and
\* the length is response.len().
to_cstring(response) ==
  IF 0 \in Range(response)
    THEN [ok |-> FALSE, buf |-> <<>>, len |-> 0]
    ELSE [ok |-> TRUE, buf |-> Append(response, 0), len |-> Len(response)]

\* ------------------------------------------------------------------ state
VARIABLES
  heap,      \* the Box allocations, by handle: kind, number of frees, content
  held,      \* handles the foreign caller currently owns
  output,    \* the caller's output slot (*output)
  lastOp,    \* the last exported call: inputs' case, status, fault
  rpcs,      \* queries submitted to the runtime, with their worker threads
  hook,      \* the process-wide panic hook registration
  regs,      \* the descriptors the caller registered as panic hook, in order
  notified   \* the last notification sent through a CallbackStr

vars == <<heap, held, output, lastOp, rpcs, hook, regs, notified>>

Handles == 1..Len(heap)

Live(h) == h \in Handles /\ heap[h].frees = 0

LiveOf(kind) == { h \in Handles : heap[h].kind = kind /\ heap[h].frees = 0 }

NoOp == [op |-> "none", status |-> 0, fault |-> FALSE, escaped |-> FALSE,
         case |-> "none", parsed |-> <<>>, printed |-> FALSE,
         in_utf8 |-> TRUE, in_cb |-> NULL,
         thrown |-> FALSE, aborted |-> FALSE, parsed_au |-> <<>>]

Op(op, status, fault, case) ==
  [NoOp EXCEPT !.op = op, !.status = status, !.fault = fault, !.case = case]

\* No CallbackStr was called yet.
NoNotification ==
  [path |-> "none", client |-> NULL, desc |-> [cb |-> NULL, param |-> NULL],
   text |-> <<>>, calls |-> <<>>]

Init ==
  /\ heap = <<>>
  /\ held = {}
  /\ output = GARBAGE
  /\ lastOp = NoOp
  /\ rpcs = <<>>
  /\ hook = [set |-> FALSE, cb |-> NULL, param |-> NULL]
  /\ regs = <<>>
  /\ notified = NoNotification

\* Box::from_raw followed by the drop of the box.
Free(h) == [heap EXCEPT ![h].frees = @ + 1]

\* ------------------------------------------------ configuration handles
\* What the catch_unwind closure of parity_config_from_cli yields for the
\* argument array and the outcome of Configuration::parse_cli
\* ("ok", "err" or "panic"): status, whether a Configuration is boxed,
\* the arguments the parser was called with (<<>>: not called), fault.
config_from_cli_result(args, outcome) ==
  LET d == decode_args(args) IN
  IF ~d.ok THEN [status |-> 1, boxed |-> FALSE, parsed |-> <<>>,
                 fault |-> FALSE, case |-> "bad_utf8"]
  ELSE CASE outcome = "ok" ->
              [status |-> 0, boxed |-> TRUE, parsed |-> d.args,
               fault |-> FALSE, case |-> "parsed"]
         [] outcome = "err" ->
              [status |-> 1, boxed |-> FALSE, parsed |-> d.args,
               fault |-> FALSE, case |-> "rejected"]
         [] OTHER ->
              [status |-> 1, boxed |-> FALSE, parsed |-> d.args,
               fault |-> TRUE, case |-> "panic"]

\* The Configuration parse_cli returns, with the auto-update setting au
\* the command line and the defaults gave it.
Configuration(au) ==
  [kind |-> "cfg", frees |-> 0, auto_update |-> au, cb |-> NULL, custom |-> NULL]

\* Faulty variant: the parser's auto-update setting is kept.
disable_auto_update_skipped(cfg) == cfg

\* cfg.args.arg_auto_update = "none".to_owned() (line 85), before the boxing.
disable_auto_update(cfg) == [cfg EXCEPT !.auto_update = STR_NONE]

\* Faulty variant: the slot is not cleared first.
slot_after_stale(prev, boxed, h) == IF boxed THEN h ELSE prev

\* The output slot after a call that first stores null and then, on
\* success only, the new handle (lines 62/88 and 108/127).
slot_after(prev, boxed, h) == IF boxed THEN h ELSE NULL

\* au: the auto-update setting of the Configuration the parser returns
\* when it returns one.
parity_config_from_cli(args, outcome, au) ==
  LET r == config_from_cli_result(args, outcome)
      h == Len(heap) + 1
  IN
  /\ r.boxed => Len(heap) < MaxObjs
  /\ heap' = IF r.boxed
               THEN Append(heap, disable_auto_update(Configuration(au)))
               ELSE heap
  /\ held' = IF r.boxed THEN held \cup {h} ELSE held
  /\ output' = slot_after(output, r.boxed, h)
  /\ lastOp' = [Op("config_from_cli", r.status, r.fault, r.case)
                  EXCEPT !.parsed = r.parsed,
                         !.parsed_au = IF r.boxed THEN au ELSE <<>>,
                         !.in_utf8 = \A i \in 1..Len(args) : from_utf8(args[i])]
  /\ UNCHANGED <<rpcs, hook, regs, notified>>

\* fault: the drop of the Configuration panics inside catch_unwind.
parity_config_destroy(h, fault) ==
  /\ h \in held
  /\ heap[h].kind = "cfg"
  /\ heap' = Free(h)
  /\ held' = held \ {h}
  /\ lastOp' = Op("config_destroy", 0, fault, "void")
  /\ UNCHANGED <<output, rpcs, hook, regs, notified>>

\* ------------------------------------------------------ running client
\* The status and the boxing of parity_start for the outcome of
\* parity_ethereum::start: Ok(Instant(Some(s))), Ok(Instant(None)),
\* Ok(Running(client)), Err(_), or a panic.
start_result(outcome) ==
  CASE outcome = "instant_some" ->
         [status |-> 0, boxed |-> FALSE, printed |-> TRUE, fault |-> FALSE]
    [] outcome = "instant_none" ->
         [status |-> 0, boxed |-> FALSE, printed |-> FALSE, fault |-> FALSE]
    [] outcome = "running" ->
         [status |-> 0, boxed |-> TRUE, printed |-> FALSE, fault |-> FALSE]
    [] outcome = "err" ->
         [status |-> 1, boxed |-> FALSE, printed |-> FALSE, fault |-> FALSE]
    [] OTHER ->
         [status |-> 1, boxed |-> FALSE, printed |-> FALSE, fault |-> TRUE]

StartOutcomes == {"instant_some", "instant_none", "running", "err", "panic"}

\* Faulty variant: the configuration is dropped on success only.
start_heap_leaking(c, r, cb, custom) ==
  IF r.boxed
    THEN Append(Free(c), [kind |-> "client", frees |-> 0,
                          auto_update |-> <<>>,
                          cb |-> cb, custom |-> custom])
    ELSE IF r.status = 0 THEN Free(c) ELSE heap

\* The heap after parity_start took the configuration c: the box is
\* rebuilt with Box::from_raw and moved into start(), so it is dropped on
\* every outcome; a running client is boxed in a new allocation.
start_heap(c, r, cb, custom) ==
  IF r.boxed
    THEN Append(Free(c), [kind |-> "client", frees |-> 0,
                          auto_update |-> <<>>,
                          cb |-> cb, custom |-> custom])
    ELSE Free(c)

parity_start(c, cb, custom, outcome) ==
  LET r == start_result(outcome)
      h == Len(heap) + 1
  IN
  /\ c \in held
  /\ heap[c].kind = "cfg"
  /\ r.boxed => Len(heap) < MaxObjs
  /\ heap' = start_heap(c, r, cb, custom)
  /\ held' = IF r.boxed THEN (held \ {c}) \cup {h} ELSE held \ {c}
  /\ output' = slot_after(output, r.boxed, h)
  /\ lastOp' = [Op("start", r.status, r.fault, outcome)
                  EXCEPT !.printed = r.printed]
  /\ UNCHANGED <<rpcs, hook, regs, notified>>

\* The futures the runtime's shutdown resolves: each pending query of the
\* client that is in the cancelled set completes with Err(()); the others
\* stay pending for ever.
shutdown_futures(h, cancelled) ==
  [q \in 1..Len(rpcs) |->
     IF rpcs[q].client = h /\ rpcs[q].fut.st = "pending" /\ q \in cancelled
       THEN [rpcs[q] EXCEPT !.fut = [st |-> "err", val |-> <<>>]]
       ELSE rpcs[q]]

\* Box::from_raw, then client.shutdown(), which joins no rpc-subscriber
\* thread (parity_rpc dropped their JoinHandles).  fault: shutdown panics.
parity_destroy(h, cancelled, fault) ==
  /\ h \in held
  /\ heap[h].kind = "client"
  /\ heap' = Free(h)
  /\ held' = held \ {h}
  /\ rpcs' = shutdown_futures(h, cancelled)
  /\ lastOp' = Op("destroy", 0, fault, "void")
  /\ UNCHANGED <<output, hook, regs, notified>>

\* ------------------------------------------------------------ rpc query
\* Faulty variant: the callback is not checked before the query is submitted.
rpc_result_unchecked_cb(query, cb, fault) ==
  CASE ~from_utf8(query) ->
         [status |-> 1, submitted |-> FALSE, spawned |-> FALSE,
          fault |-> FALSE, case |-> "bad_utf8"]
    [] fault = "rpc_query" ->
         [status |-> 1, submitted |-> FALSE, spawned |-> FALSE,
          fault |-> TRUE, case |-> "query_panic"]
    [] cb = NULL ->
         [status |-> 1, submitted |-> TRUE, spawned |-> FALSE,
          fault |-> FALSE, case |-> "null_cb"]
    [] fault = "spawn" ->
         [status |-> 1, submitted |-> TRUE, spawned |-> FALSE,
          fault |-> TRUE, case |-> "spawn_panic"]
    [] OTHER ->
         [status |-> 0, submitted |-> TRUE, spawned |-> TRUE,
          fault |-> FALSE, case |-> "accepted"]

\* The status of parity_rpc and how far it got: "bad_utf8" and "null_cb"
\* return before rpc_query; "query_panic" is a panic of rpc_query itself;
\* "spawn_panic" is the expect on thread::Builder::spawn, after the query
\* was handed to the runtime.
rpc_result(query, cb, fault) ==
  CASE ~from_utf8(query) ->
         [status |-> 1, submitted |-> FALSE, spawned |-> FALSE,
          fault |-> FALSE, case |-> "bad_utf8"]
    [] cb = NULL ->
         [status |-> 1, submitted |-> FALSE, spawned |-> FALSE,
          fault |-> FALSE, case |-> "null_cb"]
    [] fault = "rpc_query" ->
         [status |-> 1, submitted |-> FALSE, spawned |-> FALSE,
          fault |-> TRUE, case |-> "query_panic"]
    [] fault = "spawn" ->
         [status |-> 1, submitted |-> TRUE, spawned |-> FALSE,
          fault |-> TRUE, case |-> "spawn_panic"]
    [] OTHER ->
         [status |-> 0, submitted |-> TRUE, spawned |-> TRUE,
          fault |-> FALSE, case |-> "accepted"]

RpcFaults == {"none", "rpc_query", "spawn"}

Pending == [st |-> "pending", val |-> <<>>]

\* The future is dropped by the bridge (the thread ended, or was never
\* spawned): a response that is still to come has no receiver
\* ("dropped"), one that was not polled yet is lost ("lost").
drop_future(fut) ==
  IF fut.st = "pending" THEN [st |-> "dropped", val |-> <<>>]
  ELSE [st |-> "lost", val |-> <<>>]

\* The runtime completes a request whose future was dropped.
Late == [st |-> "late", val |-> <<>>]

\* Faulty variant: the executor runs on the caller's thread, so the call
\* returns once the ceiling passed and "timeout" was delivered.
new_rpc_run_inline(h, cb, r) ==
  [client |-> h, cb |-> cb, accepted |-> r.status = 0,
   fut |-> drop_future(Pending),
   worker |-> IF r.spawned THEN "timeout" ELSE "none",
   ran |-> IF r.spawned THEN QUERY_TIMEOUT ELSE 0,
   bufs |-> IF r.spawned THEN 1 ELSE 0,
   calls |-> IF r.spawned
               THEN <<[ctx |-> NULL, data |-> STR_TIMEOUT,
                       len |-> Len(STR_TIMEOUT), after_destroy |-> FALSE]>>
               ELSE <<>>]

\* A query handed to the runtime: its future, the rpc-subscriber thread
\* that runs it ("none": the thread was never spawned), and the number of
\* result buffers of the query that are allocated.
new_rpc(h, cb, r) ==
  [client |-> h, cb |-> cb, accepted |-> r.status = 0,
   fut |-> IF r.spawned THEN Pending ELSE drop_future(Pending),
   worker |-> IF r.spawned THEN "running" ELSE "none",
   ran |-> 0,
   bufs |-> 0,
   calls |-> <<>>]

\* Faulty variant: the client is taken with Box::from_raw, as
\* parity_destroy takes it, and dropped at the end of the call.
parity_rpc_consuming(h, query, cb, fault) ==
  LET r == rpc_result(query, cb, fault) IN
  /\ h \in held
  /\ heap[h].kind = "client"
  /\ r.submitted => Len(rpcs) < MaxQueries
  /\ rpcs' = IF r.submitted THEN Append(rpcs, new_rpc(h, cb, r)) ELSE rpcs
  /\ lastOp' = [Op("rpc", r.status, r.fault, r.case)
                  EXCEPT !.in_utf8 = from_utf8(query), !.in_cb = cb]
  /\ heap' = Free(h)
  /\ held' = held \ {h}
  /\ UNCHANGED <<output, hook, regs, notified>>

\* The client is borrowed (&mut *client, line 159), not boxed again: the
\* call frees nothing and writes no slot.
parity_rpc(h, query, cb, fault) ==
  LET r == rpc_result(query, cb, fault) IN
  /\ h \in held
  /\ heap[h].kind = "client"
  /\ r.submitted => Len(rpcs) < MaxQueries
  /\ rpcs' = IF r.submitted THEN Append(rpcs, new_rpc(h, cb, r)) ELSE rpcs
  /\ lastOp' = [Op("rpc", r.status, r.fault, r.case)
                  EXCEPT !.in_utf8 = from_utf8(query), !.in_cb = cb]
  /\ UNCHANGED <<heap, held, output, hook, regs, notified>>

\* The runtime resolves the future of query q: Ok(Some(payload)),
\* Ok(None) or Err(()).  Only a client that was not shut down responds.
FutureOutcomes ==
  { [st |-> "some", val |-> p] : p \in Payloads }
    \cup { [st |-> "none", val |-> <<>>], [st |-> "err", val |-> <<>>] }

RuntimeRespond(q, res) ==
  /\ rpcs[q].fut.st \in {"pending", "dropped"}
  /\ Live(rpcs[q].client)
  /\ rpcs' = [rpcs EXCEPT ![q].fut = IF @.st = "dropped" THEN Late ELSE res]
  /\ UNCHANGED <<heap, held, output, lastOp, hook, regs, notified>>

\* The bytes the map closure marshals (lines 179-182).
response_bytes(fut) ==
  IF fut.st = "some" THEN fut.val ELSE STR_EMPTY_RESPONSE

\* One invocation cb(ptr::null_mut(), cstring, len) as the callee sees it:
\* the context, the len bytes at the pointer, len, and whether the client
\* of the query had already been destroyed.
invocation(q, c) ==
  [ctx |-> NULL, data |-> SubSeq(c.buf, 1, c.len), len |-> c.len,
   after_destroy |-> ~Live(rpcs[q].client)]

\* The result buffers of a query after to_cstring made one more:
\* CString::into_raw (line 144) gives the allocation up as a raw pointer,
\* and the closures (lines 179-184 and 192-195) end after the callback
\* without a CString::from_raw that would take it back.
buffers_after(bufs) == bufs + 1

\* What the executor does once the future of q is resolved (lines
\* 178-185): Err(()) skips the map closure; Ok runs it, and a panic of
\* to_cstring unwinds the thread before the callback.
complete(q) ==
  LET r == rpcs[q]
      c == to_cstring(response_bytes(r.fut))
  IN
  IF r.fut.st = "err" THEN [r EXCEPT !.worker = "done"]
  ELSE IF ~c.ok THEN [r EXCEPT !.worker = "panicked", !.fut = drop_future(@)]
  ELSE [r EXCEPT !.worker = "done", !.bufs = buffers_after(@),
                 !.calls = Append(@, invocation(q, c))]

\* Faulty variant: one executor shared by the queries, served in submission order.
WorkerComplete_in_order(q) ==
  /\ rpcs[q].worker = "running"
  /\ rpcs[q].fut.st # "pending"
  /\ \A p \in 1..(q - 1) : rpcs[p].worker # "running"
  /\ rpcs' = [rpcs EXCEPT ![q] = complete(q)]
  /\ UNCHANGED <<heap, held, output, lastOp, hook, regs, notified>>

WorkerComplete(q) ==
  /\ rpcs[q].worker = "running"
  /\ rpcs[q].fut.st # "pending"
  /\ rpcs' = [rpcs EXCEPT ![q] = complete(q)]
  /\ UNCHANGED <<heap, held, output, lastOp, hook, regs, notified>>

\* Faulty variant: the timeout is reported but the executor keeps the future.
timed_out_keeping_future(q) ==
  [rpcs[q] EXCEPT !.ran = QUERY_TIMEOUT,
                  !.calls = Append(@, invocation(q, to_cstring(STR_TIMEOUT)))]

\* run_timeout(QUERY_TIMEOUT) returned Err, the task not being complete
\* when the ceiling passed: the map_err closure (lines 192-195) sends
\* "timeout" and the thread ends, dropping the executor and the future.
timed_out(q) ==
  [rpcs[q] EXCEPT !.worker = "timeout",
                  !.ran = QUERY_TIMEOUT,
                  !.bufs = buffers_after(@),
                  !.fut = drop_future(@),
                  !.calls = Append(@, invocation(q, to_cstring(STR_TIMEOUT)))]

\* Faulty variant: the executor runs without a ceiling, so the thread ends
\* only once the future is resolved.
WorkerTimeout_no_ceiling(q) ==
  /\ rpcs[q].worker = "running"
  /\ rpcs[q].fut.st # "pending"
  /\ rpcs' = [rpcs EXCEPT ![q] = timed_out(q)]
  /\ UNCHANGED <<heap, held, output, lastOp, hook, regs, notified>>

WorkerTimeout(q) ==
  /\ rpcs[q].worker = "running"
  /\ rpcs' = [rpcs EXCEPT ![q] = timed_out(q)]
  /\ UNCHANGED <<heap, held, output, lastOp, hook, regs, notified>>

\* ----------------------------------------------------------- panic hook
\* parity_set_panic_hook has no catch_unwind: a panic of
\* panic_hook::set_with unwinds into the foreign caller.
set_panic_hook_escapes(fault) == fault

\* Faulty variant: the first registration is kept, later ones are ignored.
parity_set_panic_hook_once(cb, param, fault) ==
  /\ hook' = IF fault \/ hook.set THEN hook
                ELSE [set |-> TRUE, cb |-> cb, param |-> param]
  /\ regs' = IF fault THEN regs ELSE Append(regs, [cb |-> cb, param |-> param])
  /\ lastOp' = [Op("set_panic_hook", 0, fault, "void")
                  EXCEPT !.escaped = set_panic_hook_escapes(fault)]
  /\ UNCHANGED <<heap, held, output, rpcs, notified>>

\* panic_hook::set_with replaces the hook of the process (std's
\* panic::set_hook); the closure owns CallbackStr(callback, param).
parity_set_panic_hook(cb, param, fault) ==
  /\ hook' = IF fault THEN hook ELSE [set |-> TRUE, cb |-> cb, param |-> param]
  /\ regs' = IF fault THEN regs ELSE Append(regs, [cb |-> cb, param |-> param])
  /\ lastOp' = [Op("set_panic_hook", 0, fault, "void")
                  EXCEPT !.escaped = set_panic_hook_escapes(fault)]
  /\ UNCHANGED <<heap, held, output, rpcs, notified>>

\* ------------------------------------------------------- notifications
\* Texts (sequences of chars) the runtime notifies: "", "foo", "e-acute"
\* (two bytes in UTF-8), the euro sign (three bytes).
Texts == { <<>>, <<102, 111, 111>>, <<233>>, <<8364>> }

\* The UTF-8 encoding of one char.
utf8_char(c) ==
  IF c < 128 THEN <<c>>
  ELSE IF c < 2048 THEN <<192 + (c \div 64), 128 + (c % 64)>>
  ELSE IF c < 65536
    THEN <<224 + (c \div 4096), 128 + ((c \div 64) % 64), 128 + (c % 64)>>
  ELSE <<240 + (c \div 262144), 128 + ((c \div 4096) % 64),
         128 + ((c \div 64) % 64), 128 + (c % 64)>>

\* str::as_bytes: the UTF-8 bytes of the text; str::len is their number.
RECURSIVE as_bytes(_)
as_bytes(text) ==
  IF text = <<>> THEN <<>> ELSE utf8_char(Head(text)) \o as_bytes(Tail(text))

\* Faulty variant: the length is the number of chars.
CallbackStr_call_char_len(desc, new_chain) ==
  IF desc.cb # NULL
    THEN <<[fn |-> desc.cb, ctx |-> desc.param,
            data |-> as_bytes(new_chain), len |-> Len(new_chain)]>>
    ELSE <<>>

\* CallbackStr::call: the invocations it makes, as the callee sees them
\* (function called, context, the len bytes at the pointer, len).
CallbackStr_call(desc, new_chain) ==
  IF desc.cb # NULL
    THEN <<[fn |-> desc.cb, ctx |-> desc.param,
            data |-> as_bytes(new_chain), len |-> Len(as_bytes(new_chain))]>>
    ELSE <<>>

\* The runtime of the running client h calls the on_client_restart_cb
\* closure parity_start gave it (lines 113-116).
ClientRestart(h, new_chain) ==
  LET desc == [cb |-> heap[h].cb, param |-> heap[h].custom] IN
  /\ Live(h)
  /\ heap[h].kind = "client"
  /\ notified' = [path |-> "restart", client |-> h, desc |-> desc,
                  text |-> new_chain,
                  calls |-> CallbackStr_call(desc, new_chain)]
  /\ UNCHANGED <<heap, held, output, lastOp, rpcs, hook, regs>>

\* A thread of the process panics while a hook is registered: the hook's
\* closure calls cb.call(panic_msg) (lines 205-207).
InternalPanic(panic_msg) ==
  LET desc == [cb |-> hook.cb, param |-> hook.param] IN
  /\ hook.set
  /\ notified' = [path |-> "panic", client |-> NULL, desc |-> desc,
                  text |-> panic_msg,
                  calls |-> CallbackStr_call(desc, panic_msg)]
  /\ UNCHANGED <<heap, held, output, lastOp, rpcs, hook, regs>>

\* ---------------------------------------------------------- JNI adapter
\* What the JVM yields for one slot of the String[] the adapter reads:
\* a string ("a", or U+0000 which JNI hands out as the bytes C0 80), an
\* element get_string fails on (a null element), or an element
\* get_object_array_element fails on.
JniElems ==
  { [st |-> "string", val |-> <<97>>],
    [st |-> "string", val |-> <<192, 128>>],
    [st |-> "no_string", val |-> <<>>],
    [st |-> "no_element", val |-> <<>>] }

\* The loop of configFromCli (lines 231-245) from element n on: the
\* expect on get_object_array_element panics, an Err of get_string
\* throws and returns, a string is pushed to opts.
RECURSIVE jni_collect(_, _, _)
jni_collect(elems, n, opts) ==
  IF n > Len(elems) THEN [case |-> "read", opts |-> opts]
  ELSE CASE elems[n].st = "no_element" -> [case |-> "elem_panic", opts |-> <<>>]
         [] elems[n].st = "no_string" -> [case |-> "string_err", opts |-> <<>>]
         [] OTHER -> jni_collect(elems, n + 1, Append(opts, elems[n].val))

\* len_ok: get_array_length succeeds (it fails on a null array, and the
\* expect of line 225 then panics).
jni_read(len_ok, elems) ==
  IF ~len_ok THEN [case |-> "len_panic", opts |-> <<>>]
  ELSE jni_collect(elems, 1, <<>>)

\* What configFromCli does for the array and the parser's outcome:
\* whether it panics, whether it throws java/lang/Exception, whether the
\* core boxed a Configuration.
jni_config_result(len_ok, elems, outcome) ==
  LET a == jni_read(len_ok, elems) IN
  CASE a.case \in {"len_panic", "elem_panic"} ->
         [panicked |-> TRUE, thrown |-> FALSE, boxed |-> FALSE,
          case |-> a.case, parsed |-> <<>>]
    [] a.case = "string_err" ->
         [panicked |-> FALSE, thrown |-> TRUE, boxed |-> FALSE,
          case |-> a.case, parsed |-> <<>>]
    [] OTHER ->
         LET r == config_from_cli_result(a.opts, outcome) IN
         [panicked |-> FALSE, thrown |-> r.status # 0, boxed |-> r.boxed,
          case |-> IF r.status = 0 THEN "created" ELSE "core_failed",
          parsed |-> r.parsed]

\* A panic that leaves an extern "system" fn is undefined behaviour: the
\* build either unwinds into the JVM's frames or aborts the process.
Unwinding == {"unwind", "abort"}

\* The return value is the handle as a jlong, or 0; `out` is a local of
\* the adapter, so the caller's output slot is not written.
Java_io_parity_ethereum_Parity_configFromCli(len_ok, elems, outcome, ub) ==
  LET r == jni_config_result(len_ok, elems, outcome)
      h == Len(heap) + 1
  IN
  /\ r.boxed => Len(heap) < MaxObjs
  /\ heap' = IF r.boxed
               THEN Append(heap, disable_auto_update(Configuration(STR_CRITICAL)))
               ELSE heap
  /\ held' = IF r.boxed THEN held \cup {h} ELSE held
  /\ lastOp' = [Op("jni_configFromCli", IF r.boxed THEN h ELSE 0,
                   r.panicked, r.case)
                  EXCEPT !.parsed = r.parsed,
                         !.thrown = r.thrown,
                         !.escaped = r.panicked /\ ub = "unwind",
                         !.aborted = r.panicked /\ ub = "abort"]
  /\ UNCHANGED <<output, rpcs, hook, regs, notified>>

\* ------------------------------------------------------------ behaviours
ArgArrays == SeqsUpTo(ArgPool, MaxArgs)

\* A command line that decodes and one that does not.
FewArgArrays == { << <<97>> >>, << <<97>>, <<255>> >> }

\* An absent callback and a present one with its context.
Descriptors == { [cb |-> NULL, param |-> NULL], [cb |-> CB_FN, param |-> CTX] }

ParseOutcomes == {"ok", "err", "panic"}

Runtime == \E q \in 1..Len(rpcs), res \in FutureOutcomes : RuntimeRespond(q, res)

Workers ==
  \E q \in 1..Len(rpcs) :
    \/ WorkerComplete(q)
    \/ WorkerTimeout(q)

\* The whole bridge, every input: a caller that builds, starts and destroys
\* handles, registers panic hooks and submits at most MaxCalls queries.
Caller ==
  \/ \E args \in FewArgArrays, o \in ParseOutcomes :
       parity_config_from_cli(args, o, STR_CRITICAL)
  \/ \E h \in held, f \in BOOLEAN : parity_config_destroy(h, f)
  \/ \E c \in held, d \in Descriptors, o \in StartOutcomes :
       parity_start(c, d.cb, d.param, o)
  \/ \E h \in held, S \in SUBSET (1..Len(rpcs)), f \in BOOLEAN :
       parity_destroy(h, S, f)
  \/ \E h \in held, q \in QueryPool, cb \in Callbacks, f \in RpcFaults :
       /\ rpc_result(q, cb, f).submitted => Len(rpcs) < MaxCalls
       /\ parity_rpc(h, q, cb, f)
  \/ \E d \in Descriptors, f \in BOOLEAN :
       /\ Len(regs) < MaxHooks
       /\ parity_set_panic_hook(d.cb, d.param, f)

Next == Caller \/ Runtime \/ Workers

Spec == Init /\ [][Next]_vars

\* The handle operations alone, over every argument array.
Handle ==
  \/ \E args \in ArgArrays, o \in ParseOutcomes :
       parity_config_from_cli(args, o, STR_CRITICAL)
  \/ \E h \in held, f \in BOOLEAN : parity_config_destroy(h, f)
  \/ \E c \in held, cb \in Callbacks, p \in Params, o \in StartOutcomes :
       parity_start(c, cb, p, o)
  \/ \E h \in held, f \in BOOLEAN : parity_destroy(h, {}, f)

SpecCfg == Init /\ [][Handle]_vars

\* The life cycle of the handles with queries in between: a caller that
\* keeps the contract, no panic hook, no fault of a destructor, every
\* outcome of start.
Life ==
  \/ \E args \in FewArgArrays : parity_config_from_cli(args, "ok", STR_CRITICAL)
  \/ \E h \in held : parity_config_destroy(h, FALSE)
  \/ \E c \in held, o \in StartOutcomes : parity_start(c, NULL, NULL, o)
  \/ \E h \in held, S \in SUBSET (1..Len(rpcs)) : parity_destroy(h, S, FALSE)
  \/ \E h \in held, q \in QueryPool :
       /\ rpc_result(q, CB_FN, "none").submitted => Len(rpcs) < MaxCalls
       /\ parity_rpc(h, q, CB_FN, "none")

NextLife == Life \/ Runtime \/ Workers

SpecLife == Init /\ [][NextLife]_vars

\* One client and every input of parity_rpc: queries that decode or not,
\* a callback or none, a panic of rpc_query or of the thread spawn.
Query ==
  \/ parity_config_from_cli(<<>>, "ok", STR_CRITICAL)
  \/ \E c \in held : parity_start(c, NULL, NULL, "running")
  \/ \E h \in held, S \in SUBSET (1..Len(rpcs)) : parity_destroy(h, S, FALSE)
  \/ \E h \in held, q \in QueryPool, cb \in Callbacks, f \in RpcFaults :
       /\ rpc_result(q, cb, f).submitted => Len(rpcs) < MaxCalls
       /\ parity_rpc(h, q, cb, f)

NextQuery == Query \/ Runtime \/ Workers

SpecQuery == Init /\ [][NextQuery]_vars

\* The life of running clients under concurrent queries: the caller parses
\* an empty command line, starts the client, submits up to MaxQueries
\* well-formed queries with a callback, and destroys the client.
Client ==
  \/ parity_config_from_cli(<<>>, "ok", STR_CRITICAL)
  \/ \E c \in held : parity_start(c, NULL, NULL, "running")
  \/ \E h \in held, S \in SUBSET (1..Len(rpcs)) : parity_destroy(h, S, FALSE)
  \/ \E h \in held, q \in QueryPool : parity_rpc(h, q, CB_FN, "none")

NextRpc == Client \/ Runtime \/ Workers

SpecRpc == Init /\ [][NextRpc]_vars

\* One step of the rpc-subscriber thread of query q.
WorkerStep(q) ==
  /\ q \in 1..Len(rpcs)
  /\ WorkerComplete(q) \/ WorkerTimeout(q)

\* The threads of the queries of one client (started from the first
\* configuration) that is destroyed at any time: the caller submits
\* well-formed queries with a callback.
Threads ==
  \/ parity_config_from_cli(<<>>, "ok", STR_CRITICAL)
  \/ \E c \in held : Len(heap) = 1 /\ parity_start(c, NULL, NULL, "running")
  \/ \E h \in held : parity_destroy(h, {}, FALSE)
  \/ \E h \in held : parity_rpc(h, <<123, 125>>, CB_FN, "none")

NextThreads == Threads \/ Runtime \/ Workers

\* Every spawned thread is scheduled: a thread that can take a step (run
\* the resolved future, or return from run_timeout at the ceiling)
\* eventually takes one.  Nothing is assumed of the runtime or of the
\* caller.
SpecThreads ==
  /\ Init
  /\ [][NextThreads]_vars
  /\ \A q \in 1..MaxQueries : WF_vars(WorkerStep(q))

\* The process runs: no panic of the adapter has aborted it.
ProcessAlive == ~lastOp.aborted

\* The Java binding of the configuration entry point: every array the JVM
\* can hand over, every outcome of the parser; nothing runs once the
\* process was aborted.
Jni ==
  \/ \E len_ok \in BOOLEAN, elems \in SeqsUpTo(JniElems, MaxArgs),
        o \in ParseOutcomes, ub \in Unwinding :
       /\ ProcessAlive
       /\ Java_io_parity_ethereum_Parity_configFromCli(len_ok, elems, o, ub)
  \/ \E h \in held : ProcessAlive /\ parity_config_destroy(h, FALSE)

SpecJni == Init /\ [][Jni]_vars

\* Command lines that ask for auto-update or not ("a" is <<97>>): none,
\* the option alone, the option after and before another argument, and
\* one with an argument that does not decode.
AutoArrays ==
  { <<>>,
    << STR_AUTO_UPDATE_ALL >>,
    << <<97>>, STR_AUTO_UPDATE_ALL >>,
    << STR_AUTO_UPDATE_ALL, <<97>> >>,
    << STR_AUTO_UPDATE_ALL, <<255>> >> }

\* Every setting the parser can return for them.
Auto ==
  \/ \E args \in AutoArrays, o \in ParseOutcomes, au \in AutoUpdates :
       parity_config_from_cli(args, o, au)
  \/ \E h \in held : parity_config_destroy(h, FALSE)

SpecAuto == Init /\ [][Auto]_vars

\* Notifications: clients started with every descriptor, panic hooks
\* registered with every descriptor, restarts signalled by the running
\* clients and panics of the process.
Notify ==
  \/ parity_config_from_cli(<<>>, "ok", STR_CRITICAL)
  \/ \E c \in held, cb \in Callbacks, p \in Params :
       parity_start(c, cb, p, "running")
  \/ \E h \in held : parity_destroy(h, {}, FALSE)
  \/ \E cb \in Callbacks, p \in Params :
       /\ Len(regs) < MaxHooks
       /\ parity_set_panic_hook(cb, p, FALSE)
  \/ \E h \in Handles, t \in Texts : ClientRestart(h, t)
  \/ \E t \in Texts : InternalPanic(t)

SpecNotify == Init /\ [][Notify]_vars

\* ---------------------------------------------------------------- claims
Accepted == { q \in 1..Len(rpcs) : rpcs[q].accepted }

Ended(q) == rpcs[q].worker \in {"done", "panicked", "timeout"}

\* C1: the callback of an accepted query is invoked at most once over the
\* whole run: never a response and a "timeout" both, and a response the
\* runtime completes after the timeout was delivered invokes nothing.
C1_AtMostOneCallback ==
  \A q \in Accepted : Len(rpcs[q].calls) <= 1

\* A query timed out, its callback got "timeout", and the runtime completed
\* the request afterwards.
C1_Witness ==
  \E q \in Accepted :
    /\ rpcs[q].worker = "timeout"
    /\ rpcs[q].fut.st = "late"
    /\ Len(rpcs[q].calls) = 1
    /\ rpcs[q].calls[1].data = STR_TIMEOUT

\* C2: every accepted query gets a callback invocation, whatever its future
\* does (payload of any bytes, no payload, error, no answer within the
\* ceiling).  Only the query's own thread invokes the callback, so the
\* claim is stated at the end of that thread, for a client that was not
\* destroyed: the thread has invoked the callback.
C2_CallbackBeforeThreadEnds ==
  \A q \in Accepted :
    Ended(q) /\ Live(rpcs[q].client) => Len(rpcs[q].calls) >= 1

\* C3: no callback of a query is invoked after parity_destroy returned for
\* the client the query was issued on.
C3_NoCallbackAfterDestroy ==
  \A q \in Accepted :
    \A i \in 1..Len(rpcs[q].calls) : ~rpcs[q].calls[i].after_destroy

\* C5: the callback of an accepted query gets a null context, a length
\* equal to the payload's byte length, and as payload the runtime's bytes
\* (future completed with a payload within the ceiling), "empty response"
\* (completed without payload) or "timeout" (not complete at the ceiling
\* of QUERY_TIMEOUT seconds).
C5_CallbackPayload ==
  \A q \in Accepted :
    \A i \in 1..Len(rpcs[q].calls) :
      LET c == rpcs[q].calls[i] IN
      /\ c.ctx = NULL
      /\ c.len = Len(c.data)
      /\ rpcs[q].worker \in {"done", "timeout"}
      /\ rpcs[q].worker = "done" =>
           /\ rpcs[q].fut.st \in {"some", "none"}
           /\ rpcs[q].fut.st = "some" => c.data = rpcs[q].fut.val
           /\ rpcs[q].fut.st = "none" => c.data = STR_EMPTY_RESPONSE
      /\ rpcs[q].worker = "timeout" =>
           /\ c.data = STR_TIMEOUT
           /\ rpcs[q].ran = 300

\* One query answered with the runtime's payload, one with "empty
\* response" or "timeout".
C5_Witness ==
  \E q, p \in Accepted :
    /\ rpcs[q].worker = "done" /\ rpcs[q].fut.st = "some"
    /\ Len(rpcs[q].calls) = 1 /\ rpcs[q].calls[1].len = Len(rpcs[q].fut.val)
    /\ Len(rpcs[p].calls) = 1
    /\ rpcs[p].calls[1].data \in {STR_EMPTY_RESPONSE, STR_TIMEOUT}

\* C10: queries on one handle are independent: a query whose future is
\* resolved can complete on its own thread, and one that waits can time
\* out, whatever the state of the other queries (pending for ever, late).
C10_QueriesIndependent ==
  \A q \in Accepted :
    rpcs[q].worker = "running" =>
      /\ ENABLED WorkerTimeout(q)
      /\ rpcs[q].fut.st # "pending" => ENABLED WorkerComplete(q)

\* The second query on a handle got its callback while the first one, on
\* the same handle, still waits for a response that has not arrived.
C10_Witness ==
  \E q, p \in Accepted :
    /\ p < q
    /\ rpcs[p].client = rpcs[q].client
    /\ rpcs[p].worker = "running" /\ rpcs[p].fut.st = "pending"
    /\ rpcs[q].worker = "done" /\ Len(rpcs[q].calls) = 1

\* C4: parity_rpc called with a null callback or with a query that is not
\* UTF-8 returns 1, hands no query to the runtime, spawns no thread and
\* invokes no callback: the call leaves the submitted queries, their
\* threads and their invocations as they were, so that nothing is left
\* that could invoke a callback for it later.
C4_RejectedQueryDoesNothing ==
  [][(/\ lastOp'.op = "rpc"
      /\ ~lastOp'.in_utf8 \/ lastOp'.in_cb = NULL
      /\ \E h \in held, q \in QueryPool, cb \in Callbacks, f \in RpcFaults :
           /\ ~from_utf8(q) \/ cb = NULL
           /\ parity_rpc(h, q, cb, f))
     => (lastOp'.status = 1 /\ rpcs' = rpcs)]_vars

\* A call with a null callback and a well-formed query returned 1 on a
\* client on which an earlier query is still running.
C4_Witness ==
  /\ lastOp.op = "rpc" /\ lastOp.in_cb = NULL /\ lastOp.in_utf8
  /\ lastOp.status = 1
  /\ \E q \in Accepted : rpcs[q].worker = "running"

\* C6: a fault raised inside an exported operation never reaches the
\* foreign caller; a status-returning operation then returns 1 and the
\* output slot of parity_config_from_cli / parity_start is null.
C6_FaultsAreCaught ==
  lastOp.fault =>
    /\ ~lastOp.escaped
    /\ lastOp.op \in {"config_from_cli", "start", "rpc"} => lastOp.status = 1
    /\ lastOp.op \in {"config_from_cli", "start"} => output = NULL

\* C7: parity_config_from_cli returns 0 exactly when it wrote a non-null
\* handle; an argument that is not UTF-8, a rejection by the parser or a
\* fault give 1, a null slot and no configuration left allocated; the
\* parser is not called when an argument does not decode.
C7_ConfigFromCli ==
  lastOp.op = "config_from_cli" =>
    /\ lastOp.status \in {0, 1}
    /\ lastOp.status = 0 <=> output # NULL
    /\ lastOp.status = 0 =>
         output \in held /\ Live(output) /\ heap[output].kind = "cfg"
    /\ (~lastOp.in_utf8 \/ lastOp.case \in {"rejected", "panic"}) =>
         lastOp.status = 1 /\ output = NULL
    /\ ~lastOp.in_utf8 => lastOp.parsed = <<>>
    /\ LiveOf("cfg") \subseteq held

\* The call failed on an argument that is not UTF-8 and left the slot
\* null, while the caller holds a configuration of an earlier call.
C7_Witness ==
  /\ lastOp.op = "config_from_cli" /\ ~lastOp.in_utf8
  /\ lastOp.status = 1 /\ output = NULL
  /\ LiveOf("cfg") # {}

\* C8: parity_start gives status 0 and a null slot for an immediate result
\* (with or without text), status 0 and a non-null slot for a running
\* client, status 1 and a null slot for a start failure; a non-null slot
\* only comes with status 0.
C8_StartOutcome ==
  lastOp.op = "start" =>
    /\ lastOp.case \in {"instant_some", "instant_none"} =>
         lastOp.status = 0 /\ output = NULL
    /\ lastOp.case = "running" =>
         /\ lastOp.status = 0 /\ output # NULL
         /\ Live(output) /\ heap[output].kind = "client"
    /\ lastOp.case = "err" => lastOp.status = 1 /\ output = NULL
    /\ output # NULL => lastOp.status = 0

\* A start failed after an earlier start had written a client handle to
\* the slot.
C8_Witness ==
  /\ lastOp.op = "start" /\ lastOp.case = "err"
  /\ lastOp.status = 1 /\ output = NULL
  /\ LiveOf("client") # {}

\* C9: with a caller that keeps the contract, every object boxed by
\* parity_config_from_cli or parity_start is freed exactly once: nothing is
\* freed twice, and an object is allocated exactly as long as the caller
\* holds its handle, so parity_start frees the configuration on every
\* outcome and nothing is left once the caller has given back its handles.
C9_FreedExactlyOnce ==
  \A h \in Handles :
    /\ heap[h].frees <= 1
    /\ heap[h].frees = 0 <=> h \in held

\* A configuration was consumed by a start that failed or faulted, another
\* became a client that answered a query and was destroyed; the caller
\* holds nothing.
C9_Witness ==
  /\ held = {}
  /\ lastOp.op = "start" /\ lastOp.status = 1
  /\ \E h \in Handles : heap[h].kind = "client" /\ heap[h].frees = 1
  /\ \E q \in Accepted : Len(rpcs[q].calls) = 1

\* C11: the Java adapter configFromCli guards every fallible step: a
\* failure of the length lookup, of an element lookup, of a string
\* conversion or of the core raises a Java exception and returns 0, and no
\* panic leaves the adapter (neither unwinding into the JVM nor aborting
\* the process).
C11_AdapterGuarded ==
  lastOp.op = "jni_configFromCli" =>
    /\ ~lastOp.escaped
    /\ ~lastOp.aborted
    /\ lastOp.case # "created" => lastOp.thrown /\ lastOp.status = 0

\* C12: every configuration parity_config_from_cli boxes has the
\* auto-update setting "none", whatever the command line asked for and
\* whatever the parser returned; and the parser is called with "parity"
\* followed by the caller's arguments in their order.
C12_AutoUpdateNone ==
  [][\A args \in AutoArrays, o \in ParseOutcomes, au \in AutoUpdates :
       parity_config_from_cli(args, o, au) =>
         /\ (\A i \in 1..Len(args) : from_utf8(args[i])) =>
              lastOp'.parsed = <<STR_PARITY>> \o args
         /\ lastOp'.parsed \in {<<>>, <<STR_PARITY>> \o args}
         /\ lastOp'.status = 0 =>
              output' \in held' /\ heap'[output'].auto_update = STR_NONE
         /\ \A h \in 1..Len(heap') :
              heap'[h].kind = "cfg" => heap'[h].auto_update = STR_NONE]_vars

\* The command line was "a --auto-update=all", the parser was given
\* "parity a --auto-update=all" and returned a Configuration with
\* auto-update "all"; the handle written to the slot has "none".
C12_Witness ==
  /\ lastOp.op = "config_from_cli" /\ lastOp.status = 0
  /\ lastOp.parsed = <<STR_PARITY, <<97>>, STR_AUTO_UPDATE_ALL>>
  /\ lastOp.parsed_au = STR_ALL
  /\ Live(output) /\ heap[output].auto_update = STR_NONE

C14_NotifyInvokesOnce ==
  notified.path # "none" =>
    /\ notified.path = "restart" =>
         /\ notified.desc.cb = heap[notified.client].cb
         /\ notified.desc.param = heap[notified.client].custom
    /\ notified.desc.cb = NULL => notified.calls = <<>>
    /\ notified.desc.cb # NULL =>
         /\ Len(notified.calls) = 1
         /\ notified.calls[1].fn = notified.desc.cb
         /\ notified.calls[1].ctx = notified.desc.param
         /\ notified.calls[1].data = as_bytes(notified.text)
         /\ from_utf8(notified.calls[1].data)
         /\ Len(notified.calls[1].data) >= Len(notified.text)
         /\ notified.calls[1].len = Len(notified.calls[1].data)

\* A client started with a callback and a context signalled a restart
\* with a one-char text of two bytes: one invocation, of length 2, with
\* that context.
C14_Witness ==
  /\ notified.path = "restart"
  /\ notified.desc = [cb |-> CB_FN, param |-> CTX]
  /\ notified.text = <<233>>
  /\ Len(notified.calls) = 1
  /\ notified.calls[1].ctx = CTX /\ notified.calls[1].len = 2

\* C15: the panic hook is one slot of the process.  Each registration
\* replaces the one before; every other step (parity_start and
\* parity_destroy included) leaves the slot as it is; and a panic message
\* is delivered at most once, to the callback and the context of the most
\* recent registration and to no earlier one.
C15_PanicHookSingleSlot ==
  [][/\ regs' # regs =>
          hook' = [set |-> TRUE, cb |-> regs'[Len(regs')].cb,
                   param |-> regs'[Len(regs')].param]
     /\ regs' = regs => hook' = hook
     /\ (notified' # notified /\ notified'.path = "panic") =>
          /\ regs # <<>>
          /\ notified'.desc = regs[Len(regs)]
          /\ Len(notified'.calls) <= 1
          /\ \A i \in 1..Len(notified'.calls) :
               /\ notified'.calls[i].fn = regs[Len(regs)].cb
               /\ notified'.calls[i].ctx = regs[Len(regs)].param]_vars

\* The hook was registered with a context and then again, same function,
\* with a null context; a client was started and destroyed; a panic
\* message was delivered once, with the null context of the second
\* registration.
C15_Witness ==
  /\ regs = << [cb |-> CB_FN, param |-> CTX], [cb |-> CB_FN, param |-> NULL] >>
  /\ \E h \in Handles : heap[h].kind = "client" /\ heap[h].frees = 1
  /\ notified.path = "panic"
  /\ Len(notified.calls) = 1
  /\ notified.calls[1].fn = CB_FN /\ notified.calls[1].ctx = NULL

\* C16: the buffer that carries a result to the callback is released by
\* the bridge after the callback returned: a query whose thread has ended
\* has no result buffer left allocated.
C16_NoBufferLeft ==
  \A q \in Accepted : Ended(q) => rpcs[q].bufs = 0

\* C17: every rpc-subscriber thread parity_rpc spawned ends: when its
\* future is resolved, or at the ceiling after the "timeout" callback;
\* none runs for ever on a runtime that never responds.
C17_WorkersTerminate ==
  \A q \in 1..MaxQueries :
    (q \in 1..Len(rpcs) /\ rpcs[q].worker = "running")
      ~> (q \in 1..Len(rpcs) /\ Ended(q))

\* Every thread has ended: one ran its resolved future, one returned at
\* the ceiling from a runtime that had not responded.
C17_Witness ==
  /\ \A q \in 1..Len(rpcs) : Ended(q)
  /\ \E q \in Accepted : rpcs[q].worker = "done"
  /\ \E q \in Accepted :
       /\ rpcs[q].worker = "timeout" /\ rpcs[q].ran = QUERY_TIMEOUT
       /\ rpcs[q].fut.st = "dropped"

\* C18: parity_rpc leaves the handles as they are, whether it accepts the
\* query, rejects it or faults: no object is freed or allocated, the
\* caller holds the same handles, and the client it was called on is
\* still allocated and held, so further calls on it are possible.
C18_RpcKeepsHandles ==
  [][\A h \in held, q \in QueryPool, cb \in Callbacks, f \in RpcFaults :
       (lastOp'.op = "rpc" /\ lastOp'.in_cb = cb /\ parity_rpc(h, q, cb, f)) =>
         /\ heap' = heap
         /\ held' = held
         /\ output' = output
         /\ h \in held' /\ heap'[h].frees = 0]_vars

\* A call on a client with a query in flight was rejected for a query
\* that is not UTF-8; the client is still allocated and held, and the
\* earlier query is still running on it.
C18_Witness ==
  /\ lastOp.op = "rpc" /\ ~lastOp.in_utf8 /\ lastOp.status = 1
  /\ \E q \in Accepted :
       /\ rpcs[q].worker = "running"
       /\ rpcs[q].client \in held /\ Live(rpcs[q].client)

====
